---- MODULE Spec2Model ----
(***************************************************************************)
(* Model of gpu::CommandBufferHelper (command buffer ring protocol): the   *)
(* client-side helper that streams commands into a shared ring buffer      *)
(* consumed asynchronously by a service behind the CommandBuffer channel.  *)
(*                                                                         *)
(* The helper's code is translated from cmd_buffer_helper.cc.  The inline  *)
(* members of the header (GetSpace, accessors, ClearUsable), the command   *)
(* encodings and the CommandBuffer channel with its service are not part   *)
(* of the translated file; they are modelled from the design document.     *)
(*                                                                         *)
(* The client is one sequential process.  A call of the blocking channel   *)
(* operation FlushSync splits a helper method in two steps, so that the    *)
(* service's steps interleave with the client exactly where they can.      *)
(***************************************************************************)
EXTENDS Integers, Sequences, FiniteSets, TLC

\* ------------------------------------------------------------------ bounds
\* Number of entries of the ring buffer requested by Initialize.
Capacity == 3
\* Largest number of InsertToken calls in one run.
MaxInserts == 3
\* The per-operation channel call counter saturates at this value.
MaxCalls == 2

\* --------------------------------------------------------------- constants
\* Mask of the 31-bit token counter.
kTokenMask == 2147483647
\* Divisors of the automatic flush limit.
kAutoFlushSmall == 16
kAutoFlushBig == 2
\* Largest size of one command, in entries.
kMaxSize == 2097151
\* Size of the SetToken command, in entries.
SetTokenEntries == 1

\* Sizes a caller reserves: DCHECK(count < total_entry_count_).
Counts == 1..(Capacity - 1)
\* Token values the helper starts from: a fresh helper, and a helper that has
\* issued all but the last tokens before the 31-bit counter wraps.
StartTokens == {0, kTokenMask - 1}

Min(a, b) == IF a < b THEN a ELSE b

VARIABLES
  helper,    \* the fields of CommandBufferHelper
  channel,   \* the CommandBuffer: client-side last state, and the service
  entries,   \* the ring buffer memory, entries_[0 .. Capacity-1]
  ctl,       \* where the client is: idle, or blocked in a FlushSync
  obs        \* observations of the run (history, not program state)

vars == <<helper, channel, entries, ctl, obs>>

\* ------------------------------------------------------------------ memory
FreeEntry == [kind |-> "free", size |-> 0, val |-> 0, seq |-> 0, unread |-> FALSE]
FreshRing == [i \in 0..(Capacity - 1) |-> FreeEntry]

\* The machine a helper method runs on: helper, channel, memory, observations.
Machine == [h |-> helper, c |-> channel, e |-> entries, o |-> obs]

\* ---------------------------------------------------------------- accessors
usable(m) == m.h.usable_
HaveRingBuffer(m) == m.h.ring_buffer_id_ >= 0
get_offset(m) == m.c.last_state.get_offset

\* One more channel call in the current operation.
CountCall(m) ==
  [m EXCEPT !.o.calls = Min(@ + 1, MaxCalls),
            !.o.call_after_fail = @ \/ m.o.sync_failed,
            !.o.channel_called = TRUE]

\* CommandBuffer::GetLastToken: refreshes the client's copy of the service
\* state (unless it already carries an error) and yields its token.
RefreshState(m) ==
  IF m.c.last_state.error THEN m
  ELSE [m EXCEPT !.c.last_state = [get_offset |-> m.c.service.get_offset,
                                   token |-> m.c.service.token,
                                   error |-> m.c.service.error]]

last_token_read(m) == RefreshState(m).c.last_state.token

\* ------------------------------------------------------ CalcImmediateEntries
\* Lines 55-62: the maximum safe contiguous entries.
SafeEntries_IgnoreGet(m) == m.h.total_entry_count_ - m.h.put_

SafeEntries_NoSentinel(m) ==
  IF get_offset(m) > m.h.put_
  THEN get_offset(m) - m.h.put_
  ELSE m.h.total_entry_count_ - m.h.put_

SafeEntries_AlwaysSentinel(m) ==
  LET curr_get == get_offset(m)
  IN IF curr_get > m.h.put_
     THEN curr_get - m.h.put_ - 1
     ELSE m.h.total_entry_count_ - m.h.put_ - 1

SafeEntries_NoGap(m) ==
  LET curr_get == get_offset(m)
  IN IF curr_get > m.h.put_
     THEN curr_get - m.h.put_
     ELSE m.h.total_entry_count_ - m.h.put_ - (IF curr_get = 0 THEN 1 ELSE 0)

SafeEntries(m) ==
  LET curr_get == get_offset(m)
  IN IF curr_get > m.h.put_
     THEN curr_get - m.h.put_ - 1
     ELSE m.h.total_entry_count_ - m.h.put_ - (IF curr_get = 0 THEN 1 ELSE 0)

CalcImmediateEntries_NoWaiting(m, waiting_count) ==
  IF ~usable(m) \/ ~HaveRingBuffer(m)
  THEN [m EXCEPT !.h.immediate_entry_count_ = 0]
  ELSE
    LET total == m.h.total_entry_count_
        safe == SafeEntries(m)
        limit0 == total \div (IF get_offset(m) = m.h.last_put_sent_
                              THEN kAutoFlushSmall ELSE kAutoFlushBig)
        pending == (m.h.put_ + total - m.h.last_put_sent_) % total
        limit == limit0 - pending
    IN IF ~m.h.flush_automatically_
       THEN [m EXCEPT !.h.immediate_entry_count_ = safe]
       ELSE IF pending > 0 /\ pending >= limit0
            THEN [m EXCEPT !.h.immediate_entry_count_ = 0]
            ELSE [m EXCEPT !.h.immediate_entry_count_ =
                              IF safe > limit THEN limit ELSE safe]

CalcImmediateEntries_NoForcedFlush(m, waiting_count) ==
  IF ~usable(m) \/ ~HaveRingBuffer(m)
  THEN [m EXCEPT !.h.immediate_entry_count_ = 0]
  ELSE
    LET total == m.h.total_entry_count_
        safe == SafeEntries(m)
        limit0 == total \div (IF get_offset(m) = m.h.last_put_sent_
                              THEN kAutoFlushSmall ELSE kAutoFlushBig)
        pending == (m.h.put_ + total - m.h.last_put_sent_) % total
        limit1 == limit0 - pending
        limit == IF limit1 < waiting_count THEN waiting_count ELSE limit1
    IN IF ~m.h.flush_automatically_
       THEN [m EXCEPT !.h.immediate_entry_count_ = safe]
       ELSE [m EXCEPT !.h.immediate_entry_count_ =
                         IF safe > limit THEN limit ELSE safe]

CalcImmediateEntries_AlwaysLimit(m, waiting_count) ==
  IF ~usable(m) \/ ~HaveRingBuffer(m)
  THEN [m EXCEPT !.h.immediate_entry_count_ = 0]
  ELSE
    LET total == m.h.total_entry_count_
        safe == SafeEntries(m)
        limit0 == total \div (IF get_offset(m) = m.h.last_put_sent_
                              THEN kAutoFlushSmall ELSE kAutoFlushBig)
        pending == (m.h.put_ + total - m.h.last_put_sent_) % total
        limit1 == limit0 - pending
        limit == IF limit1 < waiting_count THEN waiting_count ELSE limit1
    IN IF pending > 0 /\ pending >= limit0
       THEN [m EXCEPT !.h.immediate_entry_count_ = 0]
       ELSE [m EXCEPT !.h.immediate_entry_count_ =
                         IF safe > limit THEN limit ELSE safe]

CalcImmediateEntries(m, waiting_count) ==
  IF ~usable(m) \/ ~HaveRingBuffer(m)
  THEN [m EXCEPT !.h.immediate_entry_count_ = 0]
  ELSE
    LET curr_get == get_offset(m)
        total == m.h.total_entry_count_
        safe == SafeEntries(m)
        limit0 == total \div (IF curr_get = m.h.last_put_sent_
                              THEN kAutoFlushSmall ELSE kAutoFlushBig)
        pending == (m.h.put_ + total - m.h.last_put_sent_) % total
        limit1 == limit0 - pending
        limit == IF limit1 < waiting_count THEN waiting_count ELSE limit1
    IN IF ~m.h.flush_automatically_
       THEN [m EXCEPT !.h.immediate_entry_count_ = safe]
       ELSE IF pending > 0 /\ pending >= limit0
            THEN [m EXCEPT !.h.immediate_entry_count_ = 0]
            ELSE [m EXCEPT !.h.immediate_entry_count_ =
                              IF safe > limit THEN limit ELSE safe]

ClearUsable(m) == CalcImmediateEntries([m EXCEPT !.h.usable_ = FALSE], 0)

\* ------------------------------------------------------- AllocateRingBuffer
\* created: what the channel does with the allocation: CreateTransferBuffer
\* yields no buffer ("failed"), or it yields one and the service's state then
\* reports fewer entries than the buffer holds ("short") or all of them ("ok").
CreateResults == {"failed", "short", "ok"}

\* The channel's CreateTransferBuffer is called and yields a buffer or none.
CreateTransferBuffer(m, created) ==
  [CountCall(m) EXCEPT !.o.recreated = @ \/ m.o.create_failed,
                       !.o.create_failed = @ \/ created = "failed",
                       !.o.live = IF created = "failed" THEN @ ELSE @ + 1]

\* Lines 96-121: the buffer is created and handed to the service.
CreateRingBuffer_KeepUsable(m, created) ==
  LET m1 == CreateTransferBuffer(m, created)
  IN IF created = "failed" THEN m1
     ELSE CalcImmediateEntries(
            [m1 EXCEPT !.h.ring_buffer_id_ = 1,
                       !.c.service = [@ EXCEPT !.get_offset = 0, !.put_offset = 0,
                                               !.num_entries = m1.h.ring_buffer_size_],
                       !.c.last_state = [get_offset |-> 0,
                                         token |-> m1.c.service.token,
                                         error |-> m1.c.service.error],
                       !.e = FreshRing,
                       !.h.total_entry_count_ = m1.h.ring_buffer_size_,
                       !.h.put_ = 0], 0)

CreateRingBuffer_NoEntryCheck(m, created) ==
  IF created = "failed" THEN ClearUsable(CreateTransferBuffer(m, created))
  ELSE
    LET m1 == CreateTransferBuffer(m, created)
        svc == [m1.c.service EXCEPT !.get_offset = 0, !.put_offset = 0,
                                    !.num_entries =
                                       IF created = "short"
                                       THEN m1.h.ring_buffer_size_ - 1
                                       ELSE m1.h.ring_buffer_size_]
        state == [get_offset |-> svc.get_offset, token |-> svc.token,
                  error |-> svc.error]
    IN CalcImmediateEntries(
         [m1 EXCEPT !.h.ring_buffer_id_ = 1,
                    !.c.service = svc,
                    !.c.last_state = state,
                    !.e = FreshRing,
                    !.h.total_entry_count_ = m1.h.ring_buffer_size_,
                    !.h.put_ = svc.put_offset], 0)

CreateRingBuffer(m, created) ==
  IF created = "failed" THEN ClearUsable(CreateTransferBuffer(m, created))
  ELSE
    LET m1 == CreateTransferBuffer(m, created)
        \* SetGetBuffer: the service starts reading the new buffer at 0.
        svc == [m1.c.service EXCEPT !.get_offset = 0, !.put_offset = 0,
                                    !.num_entries =
                                       IF created = "short"
                                       THEN m1.h.ring_buffer_size_ - 1
                                       ELSE m1.h.ring_buffer_size_]
        \* GetState: a snapshot of the service.
        state == [get_offset |-> svc.get_offset, token |-> svc.token,
                  error |-> svc.error]
        m2 == [m1 EXCEPT !.h.ring_buffer_id_ = 1,
                         !.c.service = svc,
                         !.c.last_state = state,
                         !.e = FreshRing]
    IN IF m2.h.ring_buffer_size_ > svc.num_entries
       THEN ClearUsable(m2)
       ELSE CalcImmediateEntries(
              [m2 EXCEPT !.h.total_entry_count_ = m2.h.ring_buffer_size_,
                         !.h.put_ = svc.put_offset], 0)

AllocateRingBuffer_Retry(m, created) ==
  IF HaveRingBuffer(m) THEN m
  ELSE CreateRingBuffer([m EXCEPT !.h.usable_ = TRUE], created)

AllocateRingBuffer_NoHaveCheck(m, created) ==
  IF ~usable(m) THEN m
  ELSE CreateRingBuffer(m, created)

AllocateRingBuffer(m, created) ==
  IF ~usable(m) THEN m
  ELSE IF HaveRingBuffer(m) THEN m
  ELSE CreateRingBuffer(m, created)

\* ------------------------------------------------------------------- Flush
WrapPut_Never(m) == m

WrapPut(m) ==
  IF m.h.put_ = m.h.total_entry_count_ THEN [m EXCEPT !.h.put_ = 0] ELSE m

\* The channel receives a put offset (CommandBuffer::Flush / FlushSync).
SendPut(m) ==
  [CountCall(m) EXCEPT !.c.service.put_offset = m.h.put_,
                       !.o.backward = @ \/
                          ((m.h.put_ - m.c.service.get_offset) % Capacity
                             < (m.c.service.put_offset - m.c.service.get_offset)
                                 % Capacity),
                       !.o.sent_range = @ /\ m.h.put_ \in 0..(Capacity - 1)]

Flush_Always(m) ==
  LET m1 == WrapPut(m)
  IN IF usable(m1)
     THEN CalcImmediateEntries(
            SendPut([m1 EXCEPT !.h.last_put_sent_ = m1.h.put_]), 0)
     ELSE m1

Flush(m) ==
  LET m1 == WrapPut(m)
  IN IF usable(m1) /\ m1.h.last_put_sent_ # m1.h.put_
     THEN CalcImmediateEntries(
            SendPut([m1 EXCEPT !.h.last_put_sent_ = m1.h.put_]), 0)
     ELSE m1

\* ------------------------------------------------------- writes to memory
\* The client writes one command of n entries at offset p (cmd::Noop::Set,
\* cmd::SetToken::Init, or the caller of GetSpace filling its space).
\* Every written command carries in seq the number of commands written before
\* it that the service has not executed yet: the service executes the command
\* whose seq is 0, and the others move up.
Unread(m) ==
  Cardinality({i \in 0..(Capacity - 1) : m.e[i].unread /\ m.e[i].kind # "body"})

WriteCmd(m, p, n, kind, val) ==
  LET cells == {i \in 0..(Capacity - 1) : p <= i /\ i < p + n}
      e1 == [i \in 0..(Capacity - 1) |->
               IF i \in cells
               THEN [kind |-> IF i = p THEN kind ELSE "body",
                     size |-> IF i = p THEN n ELSE 0,
                     val |-> IF i = p THEN val ELSE 0,
                     seq |-> Unread(m),
                     unread |-> TRUE]
               ELSE m.e[i]]
      inflight == Unread(m) + 1
  IN [m EXCEPT !.e = e1,
               !.o.overwrite = @ \/ (\E i \in cells : m.e[i].unread),
               !.o.straddle = @ \/ (p + n > Capacity),
               !.o.owed = IF kind = "token"
                          THEN [t \in (DOMAIN @) \cup {val} |->
                                  IF t = val THEN inflight ELSE @[t]]
                          ELSE @]

\* while (num_entries > 0) { Noop::Set(&entries_[put_], num_to_skip); ... }
RECURSIVE InsertNoops(_, _)
InsertNoops(m, num_entries) ==
  IF num_entries > 0
  THEN LET num_to_skip == Min(kMaxSize, num_entries)
       IN InsertNoops([WriteCmd(m, m.h.put_, num_to_skip, "noop", 0)
                         EXCEPT !.h.put_ = @ + num_to_skip],
                      num_entries - num_to_skip)
  ELSE m

\* --------------------------------------------------------- step results
\* A helper method runs until it returns ("done"), aborts ("fatal") or blocks
\* in the channel's FlushSync (at = the place of the call).
R(m, at, val) == [m |-> m, at |-> at, val |-> val]

Then(r, F(_)) == IF r.at = "done" THEN F(r.m) ELSE r

\* --------------------------------------------------------------- FlushSync
\* FlushSync up to and including the call of the channel.
FlushSyncBegin_NoMark(m) ==
  IF ~usable(m) THEN R(m, "done", 0)
  ELSE R(SendPut(WrapPut(m)), "FlushSync", 0)

FlushSyncBegin_NoWrap(m) ==
  IF ~usable(m) THEN R(m, "done", 0)
  ELSE R(SendPut([m EXCEPT !.h.last_put_sent_ = m.h.put_]), "FlushSync", 0)

FlushSyncBegin(m) ==
  IF ~usable(m) THEN R(m, "done", 0)
  ELSE LET m1 == WrapPut(m)
       IN R(SendPut([m1 EXCEPT !.h.last_put_sent_ = m1.h.put_]), "FlushSync", 0)

\* FlushSync from the return of the channel: val = 1 iff no error.
FlushSyncEnd(m) ==
  LET state == [get_offset |-> m.c.service.get_offset,
                token |-> m.c.service.token,
                error |-> m.c.service.error]
  IN R(CalcImmediateEntries([m EXCEPT !.c.last_state = state,
                                      !.o.sync_failed = @ \/ state.error], 0),
       "done", IF state.error THEN 0 ELSE 1)

\* if (!FlushSync()) return ...;  blocked at the place `at'.
SyncAt(m, at) ==
  LET b == FlushSyncBegin(m)
  IN IF b.at = "FlushSync" THEN R(b.m, at, 0) ELSE R(b.m, "done", 0)

\* ------------------------------------------------------------------ Finish
Finish(m) ==
  IF ~usable(m) THEN R(m, "done", 0)
  ELSE IF m.h.put_ = get_offset(m) THEN R(m, "done", 1)
  ELSE SyncAt(m, "Finish")

FinishResume_NoLoop(m) ==
  LET r == FlushSyncEnd(m)
  IN R(r.m, "done", r.val)

FinishResume(m) ==
  LET r == FlushSyncEnd(m)
  IN IF r.val = 0 THEN R(r.m, "done", 0)
     ELSE IF r.m.h.put_ # get_offset(r.m) THEN SyncAt(r.m, "Finish")
     ELSE R(r.m, "done", 1)

\* ------------------------------------------------------------ WaitForToken
WaitForTokenLoop_NoWait(m, token) == R(RefreshState(m), "done", 0)

WaitForTokenLoop_NoEmptyCheck(m, token) ==
  LET m1 == RefreshState(m)
  IN IF m1.c.last_state.token < token
     THEN SyncAt(m1, "WaitForToken")
     ELSE R(m1, "done", 0)

WaitForTokenLoop(m, token) ==
  LET m1 == RefreshState(m)
  IN IF m1.c.last_state.token < token
     THEN IF get_offset(m1) = m1.h.put_
          THEN R(m1, "fatal", 0)
          ELSE SyncAt(m1, "WaitForToken")
     ELSE R(m1, "done", 0)

WaitForToken_NoStaleCheck(m, token) ==
  IF ~usable(m) \/ ~HaveRingBuffer(m) THEN R(m, "done", 0)
  ELSE IF token < 0 THEN R(m, "done", 0)
  ELSE WaitForTokenLoop(m, token)

WaitForToken(m, token) ==
  IF ~usable(m) \/ ~HaveRingBuffer(m) THEN R(m, "done", 0)
  ELSE IF token < 0 THEN R(m, "done", 0)
  ELSE IF token > m.h.token_ THEN R(m, "done", 0)
  ELSE WaitForTokenLoop(m, token)

WaitForTokenResume(m, token) ==
  LET r == FlushSyncEnd(m)
  IN IF r.val = 0 THEN R(r.m, "done", 0)
     ELSE WaitForTokenLoop(r.m, token)

\* ------------------------------------------------- WaitForAvailableEntries
\* Lines 296-313: try, Flush and try again, then wait in FlushSync.
WaitFull_IgnoreCount(m, count) ==
  LET m1 == CalcImmediateEntries(m, 0)
  IN IF m1.h.immediate_entry_count_ < count
     THEN SyncAt(m1, "WaitFull")
     ELSE R(m1, "done", 0)

WaitFull(m, count) ==
  LET m1 == CalcImmediateEntries(m, count)
  IN IF m1.h.immediate_entry_count_ < count
     THEN SyncAt(m1, "WaitFull")
     ELSE R(m1, "done", 0)

TryEntries_SyncFirst(m, count) ==
  LET m1 == CalcImmediateEntries(m, count)
  IN IF m1.h.immediate_entry_count_ < count
     THEN SyncAt(m1, "WaitFull")
     ELSE R(m1, "done", 0)

TryEntries(m, count) ==
  LET m1 == CalcImmediateEntries(m, count)
  IN IF m1.h.immediate_entry_count_ < count
     THEN LET m2 == CalcImmediateEntries(Flush(m1), count)
          IN IF m2.h.immediate_entry_count_ < count
             THEN SyncAt(m2, "WaitFull")
             ELSE R(m2, "done", 0)
     ELSE R(m1, "done", 0)

WaitFullResume(m, count) ==
  LET r == FlushSyncEnd(m)
  IN IF r.val = 0 THEN R(r.m, "done", 0)
     ELSE WaitFull(r.m, count)

\* Lines 285-293: the no-op padding and the wrap of put_.
PadAndWrap_NoNoops(m, count) ==
  TryEntries([m EXCEPT !.h.put_ = 0, !.o.pad.done = TRUE, !.o.pad.put = m.h.put_,
                       !.o.pad.get = get_offset(m)], count)

PadAndWrap(m, count) ==
  LET tail == {i \in 0..(Capacity - 1) : i >= m.h.put_}
      m1 == InsertNoops(m, m.h.total_entry_count_ - m.h.put_)
      m2 == [m1 EXCEPT !.o.pad = [@ EXCEPT !.done = TRUE, !.put = m.h.put_,
                                           !.get = get_offset(m),
                                           !.filled = \A i \in tail :
                                              m1.e[i].kind \in {"noop", "body"}],
                       !.o.pad_hit = @ \/ (\E i \in tail : m.e[i].unread)
                                       \/ m.c.service.get_offset > m.h.put_,
                       !.o.pad_early = @ \/ get_offset(m) > m.h.put_]
  IN TryEntries([m2 EXCEPT !.h.put_ = 0], count)

\* Lines 274-284: wait until the service's get has wrapped.
WaitWrap_NoWait(m, count) == PadAndWrap(m, count)

WaitWrap_AllowZero(m, count) ==
  IF get_offset(m) > m.h.put_
  THEN SyncAt([m EXCEPT !.o.pad.waited = TRUE], "WaitWrap")
  ELSE PadAndWrap(m, count)

WaitWrap_Inverted(m, count) ==
  LET curr_get == get_offset(m)
  IN IF curr_get > m.h.put_ \/ curr_get = 0
     THEN PadAndWrap(m, count)
     ELSE SyncAt([m EXCEPT !.o.pad.waited = TRUE], "WaitWrap")

WaitWrap(m, count) ==
  LET curr_get == get_offset(m)
  IN IF curr_get > m.h.put_ \/ curr_get = 0
     THEN SyncAt([m EXCEPT !.o.pad.waited = TRUE], "WaitWrap")
     ELSE PadAndWrap(m, count)

WaitWrapResume(m, count) ==
  LET r == FlushSyncEnd(m)
  IN IF r.val = 0 THEN R(r.m, "done", 0)
     ELSE WaitWrap(r.m, count)

WaitForAvailableEntries(m, count, created) ==
  LET m1 == AllocateRingBuffer(m, created)
  IN IF ~usable(m1) THEN R(m1, "done", 0)
     ELSE IF m1.h.put_ + count > m1.h.total_entry_count_
          THEN WaitWrap([m1 EXCEPT !.o.pad.need = TRUE], count)
          ELSE TryEntries(m1, count)

\* ---------------------------------------------------------------- GetSpace
\* GetSpace after the test for immediate entries: val = the offset of the
\* space, or -1 for NULL.
GetSpaceAlloc_KeepCount(m, count) ==
  IF count > m.h.immediate_entry_count_ THEN R(m, "done", -1)
  ELSE R([m EXCEPT !.h.put_ = @ + count], "done", m.h.put_)

GetSpaceAlloc(m, count) ==
  IF count > m.h.immediate_entry_count_ THEN R(m, "done", -1)
  ELSE R([m EXCEPT !.h.put_ = @ + count,
                   !.h.immediate_entry_count_ = @ - count],
         "done", m.h.put_)

GetSpace(m, count, created) ==
  IF count > m.h.immediate_entry_count_
  THEN Then(WaitForAvailableEntries(m, count, created),
            LAMBDA x : GetSpaceAlloc(x, count))
  ELSE GetSpaceAlloc(m, count)

\* The caller of GetSpace writes its command into the space it got.
FillSpace(r, count) ==
  IF r.at = "done" /\ r.val >= 0
  THEN R(WriteCmd(r.m, r.val, count, "cmd", 0), "done", r.val)
  ELSE r

\* ------------------------------------------------------------- InsertToken
\* Lines 228-231, after Finish returned: DCHECK_EQ(token_, last_token_read()).
InsertTokenEnd(f) ==
  IF f.at = "done"
  THEN R([f.m EXCEPT !.o.dcheck = @ \/ (f.m.h.token_ # last_token_read(f.m))],
         "done", f.m.h.token_)
  ELSE f

\* Lines 222-231, given the space GetCmdSpace returned.
InsertTokenCmd_WrongValue(r) ==
  IF r.at # "done" THEN r
  ELSE IF r.val >= 0
       THEN LET m1 == WriteCmd(r.m, r.val, SetTokenEntries, "token", 0)
            IN IF m1.h.token_ = 0
               THEN InsertTokenEnd(Finish(m1))
               ELSE R(m1, "done", m1.h.token_)
       ELSE R(r.m, "done", r.m.h.token_)

InsertTokenCmd(r) ==
  IF r.at # "done" THEN r
  ELSE IF r.val >= 0
       THEN LET m1 == WriteCmd(r.m, r.val, SetTokenEntries, "token", r.m.h.token_)
            IN IF m1.h.token_ = 0
               THEN InsertTokenEnd(Finish(m1))
               ELSE R(m1, "done", m1.h.token_)
       ELSE R(r.m, "done", r.m.h.token_)

\* token_ = (token_ + 1) & 0x7FFFFFFF, for a token_ in 0 .. kTokenMask.
NextToken_Stuck(t) == t

NextToken(t) == IF t = kTokenMask THEN 0 ELSE t + 1

InsertToken_NoUsableCheck(m, created) ==
  LET m1 == AllocateRingBuffer(m, created)
      m2 == [m1 EXCEPT !.h.token_ = NextToken(@),
                       !.o.wrapped = (m1.h.token_ = kTokenMask)]
  IN InsertTokenCmd(GetSpace(m2, SetTokenEntries, created))

InsertToken(m, created) ==
  LET m1 == AllocateRingBuffer(m, created)
  IN IF ~usable(m1) THEN R(m1, "done", m1.h.token_)
     ELSE LET m2 == [m1 EXCEPT !.h.token_ = NextToken(@),
                               !.o.wrapped = (m1.h.token_ = kTokenMask)]
          IN InsertTokenCmd(GetSpace(m2, SetTokenEntries, created))

\* ------------------------------------------------- FreeRingBuffer
FreeResources_NoGuard(m) ==
  CalcImmediateEntries(
    [CountCall(m) EXCEPT !.h.ring_buffer_id_ = -1, !.e = FreshRing,
                              !.o.live = @ - 1], 0)

FreeResources_ClearUsable(m) ==
  IF HaveRingBuffer(m)
  THEN ClearUsable([CountCall(m) EXCEPT !.h.ring_buffer_id_ = -1, !.e = FreshRing,
                              !.o.live = @ - 1])
  ELSE m

FreeResources(m) ==
  IF HaveRingBuffer(m)
  THEN CalcImmediateEntries(
         [CountCall(m) EXCEPT !.h.ring_buffer_id_ = -1, !.e = FreshRing,
                              !.o.live = @ - 1], 0)
  ELSE m

FreeRingBuffer_NoCheck(m) == R(FreeResources(m), "done", 0)

FreeRingBuffer(m) ==
  IF m.h.put_ = get_offset(m) \/ m.c.last_state.error
  THEN R(FreeResources(m), "done", 0)
  ELSE R(m, "fatal", 0)

\* ------------------------------------------------------------ IsContextLost
\* reported: whether the error GetLastError returns is an error.
IsContextLost_NotSticky(m, reported) ==
  R([m EXCEPT !.h.context_lost_ = reported], "done", IF reported THEN 1 ELSE 0)

IsContextLost(m, reported) ==
  LET m1 == IF ~m.h.context_lost_
            THEN [m EXCEPT !.h.context_lost_ = reported]
            ELSE m
  IN R(m1, "done", IF m1.h.context_lost_ THEN 1 ELSE 0)

\* ------------------------------------------------------ SetAutomaticFlushes
SetAutomaticFlushes(m, enabled) ==
  CalcImmediateEntries([m EXCEPT !.h.flush_automatically_ = enabled], 0)

\* -------------------------------------------------------------- Initialize
Initialize_Lazy(m, ring_buffer_size, created) ==
  R([m EXCEPT !.h.ring_buffer_size_ = ring_buffer_size], "done", 1)

Initialize(m, ring_buffer_size, created) ==
  LET m1 == AllocateRingBuffer(
              [m EXCEPT !.h.ring_buffer_size_ = ring_buffer_size], created)
  IN R(m1, "done", IF usable(m1) THEN 1 ELSE 0)

\* ------------------------------------------------------------ the service
\* The service executes the command at its get offset.
ServiceRun(m) ==
  LET get == m.c.service.get_offset
      cmd == m.e[get]
      head == cmd.kind \in {"noop", "cmd", "token"}
      next == (get + cmd.size) % Capacity
  IN IF ~head
     THEN [m EXCEPT !.c.service.error = TRUE, !.o.misorder = TRUE]
     ELSE [m EXCEPT !.c.service.get_offset = next,
                    !.c.service.token = IF cmd.kind = "token" THEN cmd.val ELSE @,
                    !.e = [i \in 0..(Capacity - 1) |->
                             IF i >= get /\ i < get + cmd.size
                             THEN FreeEntry
                             ELSE IF m.e[i].unread /\ m.e[i].seq > 0
                             THEN [m.e[i] EXCEPT !.seq = @ - 1]
                             ELSE m.e[i]],
                    !.o.misorder = @ \/ cmd.seq # 0 \/ ~cmd.unread,
                    !.o.owed = [t \in DOMAIN @ |->
                                  IF @[t] > 0 THEN @[t] - 1 ELSE 0]]

\* The channel's FlushSync returns when the service has moved its get offset
\* away from the one the client last knew, has nothing left to execute, or
\* has failed.
SyncReady ==
  \/ channel.service.error
  \/ channel.service.get_offset # channel.last_state.get_offset
  \/ channel.service.get_offset = channel.service.put_offset

\* ------------------------------------------------------------- the client
Idle == [pc |-> "idle", op |-> "none", arg |-> 0, at |-> "none"]

\* What the current operation's reservation did about the end of the ring:
\* need: put_ + count exceeded the capacity; done: the padding was written,
\* at offset put, when the client's get was get; filled: it fills the tail.
NoPad ==
  [need |-> FALSE, waited |-> FALSE, done |-> FALSE, put |-> 0, get |-> 0,
   filled |-> FALSE]

\* A public method is called: the observations of one operation start afresh.
BeginOp(m) ==
  [m EXCEPT !.o.calls = 0, !.o.call_after_fail = FALSE,
            !.o.sync_failed = FALSE, !.o.pad = NoPad, !.o.wrapped = FALSE]

\* A public method returns val.
EndOp(m, op, arg, val) ==
  LET o1 == [m.o EXCEPT !.ret = [op |-> op, arg |-> arg, val |-> val]]
  IN IF op = "InsertToken"
     THEN [o1 EXCEPT !.inserts = @ + 1,
                     !.last_token = val,
                     !.issued = @ \cup {val}]
     ELSE o1

\* The caller starts to emit a command (a reservation or a token).
Emit(m) == [m EXCEPT !.o.emitted = TRUE]

Commit(result, op, arg) ==
  \E r \in {result} :
    /\ helper' = r.m.h
    /\ channel' = r.m.c
    /\ entries' = r.m.e
    /\ IF r.at = "done"
       THEN obs' = EndOp(r.m, op, arg, r.val) /\ ctl' = Idle
       ELSE IF r.at = "fatal"
       THEN /\ obs' = [r.m.o EXCEPT !.fatal = op]
            /\ ctl' = [pc |-> "aborted", op |-> op, arg |-> arg, at |-> "none"]
       ELSE /\ obs' = r.m.o
            /\ ctl' = [pc |-> "blocked", op |-> op, arg |-> arg, at |-> r.at]

Ready == ctl.pc = "idle" /\ helper.ring_buffer_size_ > 0

Blocked(at) == ctl.pc = "blocked" /\ ctl.at = at /\ SyncReady

\* The number of entries the blocked reservation asked for.
WaitCount == IF ctl.op = "InsertToken" THEN SetTokenEntries ELSE ctl.arg

\* The rest of the operation once WaitForAvailableEntries has returned.
AfterWait(r) ==
  LET g == Then(r, LAMBDA x : GetSpaceAlloc(x, WaitCount))
  IN IF ctl.op = "InsertToken" THEN InsertTokenCmd(g) ELSE FillSpace(g, WaitCount)

\* Arguments of WaitForToken: the tokens InsertToken returned, the current
\* token, values above it (when an int32 can hold them) and an error value.
WaitArgs ==
  obs.issued \cup {-1, helper.token_}
    \cup (IF helper.token_ <= kTokenMask - 2
          THEN {helper.token_ + 1, helper.token_ + 2} ELSE {kTokenMask})

CallInitialize ==
  /\ ctl.pc = "idle" /\ helper.ring_buffer_size_ = 0
  /\ \E created \in CreateResults :
       Commit(Initialize(BeginOp(Machine), Capacity, created), "Initialize", Capacity)

CallGetSpace ==
  /\ Ready
  /\ \E count \in Counts, created \in CreateResults :
       Commit(FillSpace(GetSpace(Emit(BeginOp(Machine)), count, created), count),
              "GetSpace", count)

CallFlush ==
  /\ Ready
  /\ Commit(R(Flush(BeginOp(Machine)), "done", 0), "Flush", 0)

CallFlushSync ==
  /\ Ready
  /\ Commit(SyncAt(BeginOp(Machine), "FlushSync"), "FlushSync", 0)

CallFinish ==
  /\ Ready
  /\ Commit(Finish(BeginOp(Machine)), "Finish", 0)

CallInsertToken ==
  /\ Ready
  /\ obs.inserts < MaxInserts
  /\ \E created \in CreateResults :
       Commit(InsertToken(Emit(BeginOp(Machine)), created), "InsertToken", 0)

CallWaitForToken ==
  /\ Ready
  /\ \E token \in WaitArgs :
       Commit(WaitForToken(BeginOp(Machine), token), "WaitForToken", token)

CallSetAutomaticFlushes ==
  /\ Ready
  /\ \E enabled \in BOOLEAN :
       Commit(R(SetAutomaticFlushes(BeginOp(Machine), enabled), "done", 0),
              "SetAutomaticFlushes", IF enabled THEN 1 ELSE 0)

CallFreeRingBuffer ==
  /\ Ready
  /\ Commit(FreeRingBuffer(BeginOp(Machine)), "FreeRingBuffer", 0)

\* ~CommandBufferHelper: the helper is gone afterwards.
\* IsContextLost may be called at any time between two operations; the
\* channel answers GetLastError with an error or with none.
CallIsContextLost ==
  /\ ctl.pc = "idle"
  /\ \E reported \in BOOLEAN :
       Commit(IsContextLost(Machine, reported),
              "IsContextLost", IF reported THEN 1 ELSE 0)

CallDestroy ==
  /\ ctl.pc = "idle"
  /\ \E m \in {FreeResources(BeginOp(Machine))} :
       /\ helper' = m.h
       /\ channel' = m.c
       /\ entries' = m.e
       /\ obs' = EndOp(m, "Destroy", 0, 0)
       /\ ctl' = [pc |-> "destroyed", op |-> "Destroy", arg |-> 0, at |-> "none"]

ResumeFlushSync ==
  /\ Blocked("FlushSync")
  /\ Commit(FlushSyncEnd(Machine), ctl.op, ctl.arg)

ResumeFinish ==
  /\ Blocked("Finish")
  /\ Commit(IF ctl.op = "InsertToken"
            THEN InsertTokenEnd(FinishResume(Machine))
            ELSE FinishResume(Machine), ctl.op, ctl.arg)

ResumeWaitForToken ==
  /\ Blocked("WaitForToken")
  /\ Commit(WaitForTokenResume(Machine, ctl.arg), ctl.op, ctl.arg)

ResumeWaitWrap ==
  /\ Blocked("WaitWrap")
  /\ Commit(AfterWait(WaitWrapResume(Machine, WaitCount)), ctl.op, ctl.arg)

ResumeWaitFull ==
  /\ Blocked("WaitFull")
  /\ Commit(AfterWait(WaitFullResume(Machine, WaitCount)), ctl.op, ctl.arg)

ServiceExecute ==
  /\ ~channel.service.error
  /\ helper.ring_buffer_id_ >= 0
  /\ channel.service.get_offset # channel.service.put_offset
  /\ LET m == ServiceRun(Machine)
     IN /\ channel' = m.c /\ entries' = m.e /\ obs' = m.o
        /\ UNCHANGED <<helper, ctl>>

ServiceFail ==
  /\ ~channel.service.error
  /\ helper.ring_buffer_size_ > 0
  /\ channel' = [channel EXCEPT !.service.error = TRUE]
  /\ UNCHANGED <<helper, entries, ctl, obs>>

\* ---------------------------------------------------------- specification
\* The helper as its constructor leaves it; a helper that starts at a token
\* near the wrap of the counter has been initialized, used and has had its
\* ring buffer freed with put_ = get = 0.
Init ==
  \E t \in StartTokens :
    /\ helper = [ring_buffer_id_ |-> -1,
                 ring_buffer_size_ |-> IF t = 0 THEN 0 ELSE Capacity,
                 total_entry_count_ |-> IF t = 0 THEN 0 ELSE Capacity,
                 immediate_entry_count_ |-> 0,
                 token_ |-> t,
                 put_ |-> 0,
                 last_put_sent_ |-> 0,
                 usable_ |-> TRUE,
                 flush_automatically_ |-> TRUE,
                 context_lost_ |-> FALSE]
    /\ channel = [last_state |-> [get_offset |-> 0, token |-> t, error |-> FALSE],
                  service |-> [get_offset |-> 0, put_offset |-> 0, token |-> t,
                               error |-> FALSE,
                               num_entries |-> IF t = 0 THEN 0 ELSE Capacity]]
    /\ entries = FreshRing
    /\ ctl = Idle
    /\ obs = [calls |-> 0, call_after_fail |-> FALSE, sync_failed |-> FALSE,
              backward |-> FALSE, sent_range |-> TRUE, overwrite |-> FALSE,
              misorder |-> FALSE, straddle |-> FALSE,
              pad |-> NoPad, pad_hit |-> FALSE, pad_early |-> FALSE,
              owed |-> <<>>, dcheck |-> FALSE, wrapped |-> FALSE,
              fatal |-> "none", create_failed |-> FALSE, recreated |-> FALSE,
              live |-> 0,
              emitted |-> t # 0, channel_called |-> t # 0,
              ret |-> [op |-> "none", arg |-> 0, val |-> 0],
              inserts |-> 0, last_token |-> -1,
              issued |-> {}]

Next ==
  \/ CallInitialize
  \/ CallGetSpace
  \/ CallFlush
  \/ CallFlushSync
  \/ CallFinish
  \/ CallInsertToken
  \/ CallWaitForToken
  \/ CallSetAutomaticFlushes
  \/ CallFreeRingBuffer
  \/ CallDestroy
  \/ ResumeFlushSync
  \/ ResumeFinish
  \/ ResumeWaitForToken
  \/ ResumeWaitWrap
  \/ ResumeWaitFull
  \/ ServiceExecute
  \/ ServiceFail

Spec == Init /\ [][Next]_vars

\* ================================================================ claims
Slots == 0..(Capacity - 1)
UnreadSlots == {i \in Slots : entries[i].unread}
Returned(op) == ctl.pc = "idle" /\ obs.ret.op = op

\* C1: under every interleaving of the client's operations with the service's
\* steps, the client never writes a command or padding into an entry that was
\* written and not yet executed by the service, the put offsets the channel
\* receives never move backwards in ring order, and the service executes the
\* commands in the order they were written.
C1_WriteOrder == ~obs.overwrite /\ ~obs.backward /\ ~obs.misorder

\* The client has wrapped and written at the start of the ring while the
\* service is still executing commands further on.
C1_Witness ==
  /\ helper.put_ < channel.service.get_offset
  /\ entries[0].unread
  /\ \E i \in Slots : i >= channel.service.get_offset /\ entries[i].unread

\* C2: the number of entries in flight (written and not executed by the
\* service), which is the ring distance from the service's get offset to the
\* client's put offset, never exceeds capacity - 1.
RingDistance ==
  IF helper.put_ >= channel.service.get_offset
  THEN helper.put_ - channel.service.get_offset
  ELSE helper.put_ + helper.total_entry_count_ - channel.service.get_offset

C2_InFlight ==
  helper.usable_ /\ helper.ring_buffer_id_ >= 0 =>
    /\ Cardinality(UnreadSlots) <= Capacity - 1
    /\ RingDistance <= helper.total_entry_count_ - 1
    /\ Cardinality(UnreadSlots) = RingDistance

\* The ring is full: capacity - 1 entries are in flight.
C2_Witness ==
  helper.ring_buffer_id_ >= 0 /\ Cardinality(UnreadSlots) = Capacity - 1

C4_Contiguous ==
  /\ ~obs.straddle
  /\ (Returned("GetSpace") /\ obs.ret.val >= 0) =>
       /\ obs.ret.val + obs.ret.arg <= Capacity
       /\ obs.pad.need =>
            /\ obs.pad.done /\ obs.pad.filled
            /\ obs.pad.put + obs.ret.arg > Capacity
            /\ obs.ret.val = 0

\* A reservation that did not fit before the end of the ring has succeeded.
C4_Witness ==
  /\ Returned("GetSpace") /\ obs.ret.val = 0
  /\ obs.pad.need /\ obs.pad.put < Capacity /\ obs.ret.arg > 1

\* An InsertToken call returns in this step.
InsertTokenReturns == obs'.inserts = obs.inserts + 1

\* The value InsertToken returns follows the one it returned before.
TokenFollows ==
  \/ obs.last_token = -1
  \/ obs'.last_token > obs.last_token
  \/ obs.last_token = kTokenMask /\ obs'.last_token = 0

\* C5 (as stated): for all sequences of InsertToken calls, the returned values
\* strictly increase from one call to the next until the counter wraps to 0.
C5_Original == [][InsertTokenReturns => TokenFollows]_vars

\* C5 (amended): the values returned by InsertToken calls that leave the
\* helper usable strictly increase from one call to the next until the
\* counter wraps to 0.
C5_Increasing == [][InsertTokenReturns /\ helper'.usable_ => TokenFollows]_vars

\* Two InsertToken calls have returned on a usable helper, the second one a
\* value above the first.
C5_Witness == obs.inserts >= 2 /\ helper.usable_ /\ obs.last_token > 1

\* No entry is in flight: the service has executed all that was written.
Drained ==
  /\ helper.put_ = channel.last_state.get_offset
  /\ helper.put_ = channel.service.get_offset
  /\ UnreadSlots = {}

\* C6: whenever InsertToken returns the wrapped value 0, a full Finish has
\* completed: put equals get, the service has executed every entry written so
\* far and the token it acknowledges is 0.
C6_WrapFinished ==
  (Returned("InsertToken") /\ obs.wrapped /\ obs.ret.val = 0) =>
     Drained /\ channel.service.token = 0

\* C7 (as stated): when WaitForToken(T) returns for a T that InsertToken
\* returned, and no channel error was reported during the wait, the service
\* has executed the token command of T and every command written before it.
C7_Original ==
  (Returned("WaitForToken") /\ obs.ret.arg \in obs.issued /\ ~obs.sync_failed) =>
     /\ obs.ret.arg \in DOMAIN obs.owed
     /\ obs.owed[obs.ret.arg] = 0

\* C7 (amended): when WaitForToken(T) returns for a T that InsertToken
\* returned, the helper is usable and no channel error has been reported to
\* the client, during the wait or before it, the service has executed the
\* token command of T and every command written before it; also when the
\* token counter has wrapped since T was returned.
C7_Consumed ==
  (/\ Returned("WaitForToken") /\ obs.ret.arg \in obs.issued
   /\ helper.usable_ /\ ~channel.last_state.error) =>
     /\ obs.ret.arg \in DOMAIN obs.owed
     /\ obs.owed[obs.ret.arg] = 0

\* WaitForToken has returned, after a blocking flush, for a token that
\* InsertToken returned.
C7_Witness ==
  /\ Returned("WaitForToken") /\ obs.ret.arg \in obs.issued
  /\ helper.usable_ /\ ~channel.last_state.error
  /\ obs.calls > 0

\* This step is a call of WaitForToken; WaitArg is its argument.
WaitCalled ==
  /\ ctl.pc = "idle"
  /\ IF ctl'.pc = "idle" THEN obs'.ret.op = "WaitForToken"
                         ELSE ctl'.op = "WaitForToken"
WaitArg == IF ctl'.pc = "idle" THEN obs'.ret.arg ELSE ctl'.arg

\* C8: WaitForToken(v) with v above the most recently issued token returns
\* immediately: it does not block, makes no channel call and leaves the
\* helper (put, last_put_sent, token, usable) and the client's view of the
\* service unchanged.
C8_StaleWait ==
  [][(WaitCalled /\ WaitArg > helper.token_) =>
       /\ ctl'.pc = "idle"
       /\ helper' = helper
       /\ obs'.calls = 0
       /\ channel'.last_state = channel.last_state
       /\ channel'.service.put_offset = channel.service.put_offset]_vars

\* WaitForToken has returned for a value above the current token, on a usable
\* helper whose ring holds entries that were never flushed.
C8_Witness ==
  /\ Returned("WaitForToken") /\ obs.ret.arg > helper.token_
  /\ helper.usable_ /\ helper.ring_buffer_id_ >= 0
  /\ helper.put_ # helper.last_put_sent_ /\ UnreadSlots # {}

\* C9: a WaitForToken(T) that observes the ring empty (put = get) while the
\* acknowledged token is below T aborts: it issues no flush in that state,
\* and it does not return as if the token had passed.
C9_EmptyAborts ==
  /\ (ctl.pc = "blocked" /\ ctl.at = "WaitForToken") =>
        /\ channel.last_state.token < ctl.arg
        /\ channel.last_state.get_offset # helper.put_
  /\ obs.fatal = "WaitForToken" =>
        /\ channel.last_state.token < ctl.arg
        /\ channel.last_state.get_offset = helper.put_
  /\ (/\ Returned("WaitForToken") /\ ~obs.sync_failed
      /\ helper.usable_ /\ helper.ring_buffer_id_ >= 0
      /\ obs.ret.arg >= 0 /\ obs.ret.arg <= helper.token_) =>
        channel.last_state.token >= obs.ret.arg

\* WaitForToken has aborted on an empty ring.
C9_Witness ==
  /\ obs.fatal = "WaitForToken" /\ ctl.pc = "aborted"
  /\ channel.last_state.get_offset = helper.put_

\* C10: Finish returns true only with put = get and every written entry
\* executed by the service; it returns false exactly when the helper is
\* unusable or one of its FlushSync calls reported an error, and it makes no
\* channel call after a failed FlushSync.
C10_Finish ==
  /\ Returned("Finish") =>
       /\ obs.ret.val = 1 => Drained
       /\ obs.ret.val = 0 <=> (~helper.usable_ \/ obs.sync_failed)
       /\ ~obs.call_after_fail
  /\ (ctl.pc = "blocked" /\ ctl.op = "Finish") => ~obs.call_after_fail

\* Finish has returned true after more than one FlushSync.
C10_Witness ==
  Returned("Finish") /\ obs.ret.val = 1 /\ obs.calls >= 2

\* ------------------------------------------------------------------- C11
\* The writable space as CalcImmediateEntries(0) yields it from the cached get.
Recomputed ==
  helper.immediate_entry_count_ =
    CalcImmediateEntries(Machine, 0).h.immediate_entry_count_

\* C11 as stated: after every FlushSync last_put_sent_ = put_, the writable
\* space is the one recomputed from the returned get, and the result is false
\* iff the helper is unusable or the returned state carries an error.
C11_Original ==
  Returned("FlushSync") =>
    /\ helper.last_put_sent_ = helper.put_
    /\ Recomputed
    /\ (obs.ret.val = 0) <=> (~helper.usable_ \/ channel.last_state.error)

\* C11 (amended): a FlushSync on a usable helper leaves last_put_sent_ = put_
\* and the writable space recomputed from the get the channel returned; every
\* FlushSync returns false iff the helper is unusable or the returned state
\* carries an error, and an unusable helper makes no channel call.
C11_FlushSync ==
  Returned("FlushSync") =>
    /\ helper.usable_ =>
          /\ helper.last_put_sent_ = helper.put_
          /\ helper.put_ < helper.total_entry_count_ \/ ~HaveRingBuffer(Machine)
          /\ Recomputed
          /\ obs.calls = 1
          /\ channel.service.put_offset = helper.put_
          /\ channel.last_state.error = obs.sync_failed
    /\ ~helper.usable_ => obs.calls = 0
    /\ (obs.ret.val = 0) <=> (~helper.usable_ \/ channel.last_state.error)

\* A FlushSync of unsent work returned true, and one returned false on an error.
C11_Witness ==
  /\ Returned("FlushSync")
  /\ helper.usable_
  /\ obs.ret.val = 1
  /\ helper.put_ > 0
  /\ helper.immediate_entry_count_ > 0

\* ------------------------------------------------------------------- C12
\* A step of the service: it moves its get offset or fails, and the client
\* stays where it is.
ServiceStep ==
  /\ helper' = helper /\ ctl' = ctl
  /\ \/ channel'.service.get_offset # channel.service.get_offset
     \/ channel'.service.error # channel.service.error

\* A step in which the client calls op and op returns.
CallReturns(op) ==
  /\ ctl.pc = "idle" /\ ctl'.pc = "idle"
  /\ obs'.ret.op = op
  /\ helper' = helper => ~ServiceStep

\* C12: a Flush with last_put_sent_ = put_ makes no channel call and leaves
\* last_put_sent_ (and all the channel's state) unchanged; a Flush on a usable
\* helper with last_put_sent_ # put_ hands the current put to the channel
\* exactly once and sets last_put_sent_ to it.
C12_Flush ==
  [][CallReturns("Flush") =>
       /\ helper.last_put_sent_ = helper.put_ =>
             /\ obs'.calls = 0
             /\ helper'.last_put_sent_ = helper.last_put_sent_
             /\ channel' = channel
       /\ helper.usable_ /\ helper.last_put_sent_ # helper.put_ =>
             /\ obs'.calls = 1
             /\ channel'.service.put_offset =
                  (IF helper.put_ = helper.total_entry_count_ THEN 0 ELSE helper.put_)
             /\ helper'.last_put_sent_ = channel'.service.put_offset
             /\ helper'.put_ = helper'.last_put_sent_]_vars

\* A Flush has handed unsent work to the channel with one call.
C12_Witness ==
  /\ Returned("Flush")
  /\ obs.calls = 1
  /\ helper.put_ > 0
  /\ helper.last_put_sent_ = helper.put_
  /\ channel.service.put_offset = helper.put_
  /\ UnreadSlots # {}

\* ------------------------------------------------------------------- C13
\* A fair service and channel: the service goes on executing what has been
\* flushed to it (unless it fails), and a channel FlushSync whose condition
\* to return holds returns to the waiting client.
FairSpec ==
  /\ Spec
  /\ WF_vars(ServiceExecute)
  /\ WF_vars(ResumeFlushSync)
  /\ WF_vars(ResumeFinish)
  /\ WF_vars(ResumeWaitForToken)

InWait == ctl.pc = "blocked"

\* The entries the client knows to be outstanding at the service.
Outstanding ==
  (helper.put_ - channel.last_state.get_offset) % Capacity

ServiceCanRun ==
  /\ ~channel.service.error
  /\ helper.ring_buffer_id_ >= 0
  /\ channel.service.get_offset # channel.service.put_offset

\* A step of a wait loop from one call of the channel's FlushSync to the next.
LoopsAgain ==
  /\ InWait /\ InWait'
  /\ ctl'.at = ctl.at
  /\ ~ServiceStep

\* The order in which one operation can pass through the wait loops.
LoopRank(at) ==
  IF at = "WaitWrap" THEN 1 ELSE IF at = "WaitFull" THEN 2 ELSE 3

\* A step from a wait in one loop to a wait in another loop.
NextLoop ==
  /\ InWait /\ InWait'
  /\ ctl'.at # ctl.at

\* Every wait can go on: the channel's FlushSync can return or the service
\* can execute; no loop waits on a ring it knows to be empty; an iteration
\* that waits again knows strictly fewer entries outstanding and has seen no
\* error from the channel; an operation passes from one loop to another only
\* in the order of the code.
C13_Progress ==
  /\ [](InWait => SyncReady \/ ServiceCanRun)
  /\ [](InWait /\ ctl.at # "FlushSync" => Outstanding > 0)
  /\ [][LoopsAgain => /\ Outstanding' < Outstanding
                      /\ ctl'.at # "FlushSync"
                      /\ ~channel'.last_state.error]_vars
  /\ [][NextLoop => LoopRank(ctl'.at) > LoopRank(ctl.at)]_vars

AfterFailedWait == ctl.pc = "idle" /\ obs.sync_failed

\* C14: an error the channel reports during a wait leaves the helper
\* unusable, and a reservation that follows returns at once with no space.
C14_ErrorUnusable ==
  [][AfterFailedWait =>
       /\ ~helper.usable_
       /\ CallReturns("GetSpace") => obs'.ret.val = -1 /\ obs'.calls = 0]_vars

\* ------------------------------------------------------------------- C15
\* A step in which the client calls a method.
ClientCall == ctl.pc = "idle" /\ ~ServiceStep /\ vars' # vars

\* What an operation on an unusable helper returns: no space, false, or for
\* InsertToken the current token.
FailureValue ==
  /\ obs'.ret.op = "GetSpace" => obs'.ret.val = -1
  /\ obs'.ret.op \in {"Finish", "FlushSync", "Initialize"} => obs'.ret.val = 0
  /\ obs'.ret.op = "InsertToken" => obs'.ret.val = helper.token_


\* The operation a step of the client belongs to.
CalledOp == IF ctl'.pc = "idle" THEN obs'.ret.op ELSE ctl'.op

\* The operations the claim names.
ListedCall ==
  CalledOp \in {"GetSpace", "Flush", "FlushSync", "Finish", "InsertToken",
                "WaitForToken"}
\* C15 as stated: on an unusable helper every operation returns at once,
\* makes no channel call and leaves put_, last_put_sent_ and token_ unchanged.
C15_Original ==
  [][~helper.usable_ /\ ClientCall /\ ListedCall =>
       /\ ctl'.pc \notin {"blocked", "aborted"}
       /\ obs'.calls = 0
       /\ channel' = channel
       /\ helper'.put_ = helper.put_
       /\ helper'.last_put_sent_ = helper.last_put_sent_
       /\ helper'.token_ = helper.token_
       /\ FailureValue]_vars

\* C15 (amended): on an unusable helper every operation returns at once with
\* its failure value, makes no channel call and leaves last_put_sent_ and
\* token_ unchanged; put_ is unchanged too, except that Flush rewrites a put_
\* at the end of the ring to 0.
C15_Unusable ==
  [][~helper.usable_ /\ ClientCall /\ ListedCall =>
       /\ ctl'.pc \notin {"blocked", "aborted"}
       /\ obs'.calls = 0
       /\ channel' = channel
       /\ entries' = entries
       /\ helper'.put_ =
            (IF obs'.ret.op = "Flush" /\ helper.put_ = helper.total_entry_count_
             THEN 0 ELSE helper.put_)
       /\ helper'.last_put_sent_ = helper.last_put_sent_
       /\ helper'.token_ = helper.token_
       /\ helper'.immediate_entry_count_ = 0
       /\ ~helper'.usable_
       /\ FailureValue]_vars

\* An InsertToken on an unusable helper has returned the token it had before.
C15_Witness ==
  /\ ~helper.usable_
  /\ Returned("InsertToken")
  /\ obs.ret.val = helper.token_
  /\ obs.calls = 0
  /\ helper.put_ > 0

\* ------------------------------------------------------------------- C16
\* C16: once the channel has reported an error to the client, no
\* WaitForToken on a value InsertToken returned reaches the fatal
\* empty-buffer path.
C16_NoCrash ==
  ~(/\ obs.fatal = "WaitForToken"
    /\ ctl.arg \in obs.issued
    /\ channel.last_state.error)

\* ------------------------------------------------------------------- C17
\* C17: usable_ is monotone: once false it is never true again.
C17_Monotone == [][~helper.usable_ => ~helper'.usable_]_vars

\* An unusable helper has been asked for space again, with a channel that
\* would now create the buffer, and has stayed unusable.
C17_Witness ==
  /\ ~helper.usable_
  /\ Returned("GetSpace")
  /\ obs.calls = 0
  /\ helper.total_entry_count_ > 0

\* ------------------------------------------------------------------- C18
\* C18: once the channel has failed to create the ring buffer the helper is
\* unusable, without buffer and without writable space; CreateTransferBuffer
\* is never called again; and a reservation returns no space.
C18_CreateFails ==
  /\ obs.create_failed =>
        /\ ~helper.usable_
        /\ helper.ring_buffer_id_ < 0
        /\ helper.immediate_entry_count_ = 0
        /\ Returned("GetSpace") => obs.ret.val = -1
        /\ ctl.pc \notin {"blocked", "aborted"}
  /\ ~obs.recreated

\* The reservation in which the creation failed has returned no space.
C18_Witness ==
  /\ obs.create_failed
  /\ Returned("GetSpace")
  /\ obs.calls = 1
  /\ obs.ret.val = -1

\* ------------------------------------------------------------------- C19

\* The call that follows a FreeRingBuffer is a reservation or an InsertToken.
ReserveAfterFree ==
  /\ Returned("FreeRingBuffer")
  /\ ClientCall
  /\ CalledOp \in {"GetSpace", "InsertToken"}

C20_FreeOnce ==
  [][/\ CallReturns("FreeRingBuffer") =>
          IF HaveRingBuffer(Machine)
          THEN obs'.calls = 1 /\ helper'.ring_buffer_id_ < 0
          ELSE /\ obs'.calls = 0
               /\ helper' = helper
               /\ channel' = channel
               /\ entries' = entries
     /\ ClientCall /\ ctl'.pc = "aborted" /\ ctl'.op = "FreeRingBuffer"
          => HaveRingBuffer(Machine)]_vars

\* A FreeRingBuffer on a helper whose ring buffer had been freed before has
\* returned without a channel call.
C20_Witness ==
  /\ Returned("FreeRingBuffer")
  /\ obs.calls = 0
  /\ helper.ring_buffer_id_ < 0
  /\ helper.put_ > 0
  /\ helper.usable_

\* ------------------------------------------------------------------- C21
Destroyed == ctl.pc = "destroyed"

\* A step in which the channel's CreateTransferBuffer is called.
CreateStep ==
  \/ helper.ring_buffer_id_ < 0 /\ helper'.ring_buffer_id_ >= 0
  \/ ~obs.create_failed /\ obs'.create_failed

\* C21 as stated: a helper destroyed without any reservation or InsertToken
\* has made no channel call, and CreateTransferBuffer is called only by a
\* reservation or an InsertToken.
C21_Original ==
  /\ [](Destroyed /\ ~obs.emitted => ~obs.channel_called)
  /\ [][CreateStep => CalledOp \in {"GetSpace", "InsertToken"}]_vars

\* C21 (amended): a helper that is destroyed before Initialize has made no
\* channel call; Initialize calls CreateTransferBuffer at once; afterwards
\* CreateTransferBuffer is called only by a reservation or an InsertToken
\* that finds no ring buffer; and the destructor makes one channel call if a
\* ring buffer is installed and none otherwise.
C21_Lazy ==
  /\ [](helper.ring_buffer_size_ = 0 => ~obs.channel_called)
  /\ [][CreateStep => /\ ClientCall
                      /\ CalledOp \in {"Initialize", "GetSpace", "InsertToken"}
                      /\ helper.usable_ /\ helper.ring_buffer_id_ < 0]_vars
  /\ [][ClientCall /\ CalledOp = "Initialize" => CreateStep /\ obs'.calls = 1]_vars
  /\ [][Destroyed' /\ ~Destroyed =>
          obs'.calls = (IF helper.ring_buffer_id_ >= 0 THEN 1 ELSE 0)]_vars

\* A helper has been destroyed before Initialize, without a channel call.
C21_Witness ==
  /\ Destroyed
  /\ helper.ring_buffer_size_ = 0
  /\ ~obs.channel_called
  /\ ~obs.emitted

(***************************************************************************)
(* The writable-entry computation as a function of its inputs.  CalcSpec   *)
(* draws a helper state (ring size, put_, last_put_sent_, the cached get,  *)
(* usable_, the ring, the automatic-flush switch) and a waiting count from *)
(* bounded sets and applies CalcImmediateEntries to it once.  put_ may     *)
(* equal the ring size (it wraps lazily at the next flush); that only      *)
(* happens while get is not 0.                                             *)
(***************************************************************************)
ScenarioCapacity == 8

MaxWaiting == 4

Totals == {ScenarioCapacity, 2 * ScenarioCapacity}

CalcInit ==
  \E total \in Totals :
    \E put \in 0..total, get \in 0..(total - 1), sent \in 0..(total - 1),
       waiting \in 0..MaxWaiting, ring, use, auto \in BOOLEAN :
      /\ put = total => get >= 1
      /\ helper = [ring_buffer_id_ |-> IF ring THEN 1 ELSE -1,
                   ring_buffer_size_ |-> total,
                   total_entry_count_ |-> total,
                   immediate_entry_count_ |-> 0,
                   token_ |-> 0,
                   put_ |-> put,
                   last_put_sent_ |-> sent,
                   usable_ |-> use,
                   flush_automatically_ |-> auto,
                   context_lost_ |-> FALSE]
      /\ channel = [last_state |-> [get_offset |-> get, token |-> 0,
                                    error |-> FALSE],
                    service |-> [get_offset |-> get, put_offset |-> sent,
                                 token |-> 0, error |-> FALSE,
                                 num_entries |-> total]]
      /\ entries = FreshRing
      /\ ctl = [pc |-> "calc", op |-> "CalcImmediateEntries",
                arg |-> waiting, at |-> "none"]
      /\ obs = [calls |-> 0]

CalcApply ==
  /\ ctl.pc = "calc"
  /\ helper' = CalcImmediateEntries(Machine, ctl.arg).h
  /\ ctl' = [ctl EXCEPT !.pc = "computed"]
  /\ UNCHANGED <<channel, entries, obs>>

CalcNext == CalcApply

CalcSpec == CalcInit /\ [][CalcNext]_vars

Computed == ctl.pc = "computed"

CachedGet == channel.last_state.get_offset

(* C22: with automatic flushes disabled, on a usable helper with an        *)
(* allocated ring, the writable count computed for a pair (put, get) is    *)
(* get - put - 1 when get > put, and otherwise capacity - put, less one    *)
(* when get = 0.                                                           *)
C22_Writable ==
  Computed /\ helper.usable_ /\ helper.ring_buffer_id_ >= 0
           /\ ~helper.flush_automatically_ =>
    helper.immediate_entry_count_ =
      IF CachedGet > helper.put_
      THEN CachedGet - helper.put_ - 1
      ELSE helper.total_entry_count_ - helper.put_
             - (IF CachedGet = 0 THEN 1 ELSE 0)

C22_Witness ==
  /\ Computed /\ helper.usable_ /\ helper.ring_buffer_id_ >= 0
  /\ ~helper.flush_automatically_
  /\ CachedGet = 0 /\ helper.put_ = 2
  /\ helper.last_put_sent_ = 0
  /\ helper.immediate_entry_count_ = helper.total_entry_count_ - 3

(* Scenario A ends in this state: 3 entries reserved from put_ = 0 on a    *)
(* ring of ScenarioCapacity entries, flushed (last_put_sent_ = 3) and      *)
(* consumed by the service (get = 3).                                      *)
ScenarioA ==
  /\ Computed /\ helper.usable_ /\ helper.ring_buffer_id_ >= 0
  /\ helper.total_entry_count_ = ScenarioCapacity
  /\ helper.put_ = 3 /\ helper.last_put_sent_ = 3 /\ CachedGet = 3

(* C23 as stated: in scenario A the next computed writable count is        *)
(* capacity - 3 - 1 (4 of 8).                                              *)
C23_Original ==
  ScenarioA => helper.immediate_entry_count_ = ScenarioCapacity - 3 - 1

(* C23: in scenario A the next computed writable count is capacity - 3     *)
(* (5 of 8) with automatic flushes disabled; with them enabled it is that  *)
(* count capped by the larger of capacity / kAutoFlushSmall and the        *)
(* waiting count.                                                          *)
C23_ScenarioA ==
  ScenarioA =>
    helper.immediate_entry_count_ =
      IF ~helper.flush_automatically_
      THEN ScenarioCapacity - 3
      ELSE LET small == ScenarioCapacity \div kAutoFlushSmall
               limit == IF small < ctl.arg THEN ctl.arg ELSE small
           IN Min(ScenarioCapacity - 3, limit)

C23_Witness ==
  /\ ScenarioA /\ ~helper.flush_automatically_
  /\ helper.immediate_entry_count_ = ScenarioCapacity - 3

(* Scenario B: a reservation that does not fit between put_ and the end of *)
(* the ring (put = 6, count = 4 of 8 in the text; here every put_ and      *)
(* count with put_ + count > Capacity).                                    *)
WrapBlocked == ctl.pc = "blocked" /\ ctl.at = "WaitWrap"

Pending ==
  (helper.put_ + helper.total_entry_count_ - helper.last_put_sent_)
    % helper.total_entry_count_

FlushLimit ==
  helper.total_entry_count_
    \div (IF CachedGet = helper.last_put_sent_
          THEN kAutoFlushSmall ELSE kAutoFlushBig)

\* The pending entries have reached the limit of a helper that flushes
\* automatically.
FlushDue ==
  /\ helper.usable_ /\ helper.ring_buffer_id_ >= 0
  /\ helper.flush_automatically_
  /\ Pending > 0 /\ Pending >= FlushLimit

\* The entries the called reservation asks for.
CalledCount ==
  IF CalledOp = "InsertToken" THEN SetTokenEntries
  ELSE IF ctl'.pc = "idle" THEN obs'.ret.arg ELSE ctl'.arg

(* C25: with automatic flushes on, a recomputation with pending > 0 and    *)
(* pending >= limit yields 0 writable entries, and a reservation called in *)
(* such a state for more entries than the helper holds calls the channel   *)
(* to flush before it hands out any entry: the space it returns starts at  *)
(* a flushed put_, or follows a wrap.                                      *)
C25_LimitFlush ==
  /\ [](Returned("SetAutomaticFlushes") /\ FlushDue =>
          helper.immediate_entry_count_ = 0)
  /\ [][/\ FlushDue /\ ClientCall
         /\ CalledOp \in {"GetSpace", "InsertToken"}
         /\ CalledCount > helper.immediate_entry_count_
         => /\ obs'.calls >= 1
            /\ ctl'.pc = "idle" /\ ~obs'.pad.done =>
                  helper'.last_put_sent_ = helper.put_ % helper.total_entry_count_]_vars

C25_Witness ==
  /\ Returned("SetAutomaticFlushes") /\ FlushDue
  /\ helper.immediate_entry_count_ = 0
  /\ CachedGet # helper.last_put_sent_

\* ------------------------------------------------------------------- C26
\* The helper is between two public operations and has a ring size.
Between == ctl.pc = "idle" /\ helper.total_entry_count_ > 0

InRing(x) == 0 <= x /\ x < helper.total_entry_count_

(* C26 as stated: between public operations put_, last_put_sent_ and the   *)
(* cached get are all in [0, capacity).                                    *)
C26_Original ==
  Between =>
    InRing(helper.put_) /\ InRing(helper.last_put_sent_) /\ InRing(CachedGet)

(* C26: between public operations last_put_sent_ and the cached get are in *)
(* [0, capacity) and put_ is in [0, capacity]; put_ = capacity only while  *)
(* the cached get is not 0 and no writable entry is left, and never right  *)
(* after Flush, or after FlushSync or Finish on a usable helper.           *)
C26_Cursors ==
  Between =>
    /\ InRing(helper.last_put_sent_) /\ InRing(CachedGet)
    /\ 0 <= helper.put_ /\ helper.put_ <= helper.total_entry_count_
    /\ helper.put_ = helper.total_entry_count_ =>
          /\ helper.immediate_entry_count_ = 0
          /\ helper.usable_ => CachedGet >= 1
    /\ \/ obs.ret.op = "Flush"
       \/ obs.ret.op \in {"FlushSync", "Finish"} /\ helper.usable_
       => InRing(helper.put_)

C26_Witness ==
  /\ Between /\ Returned("GetSpace")
  /\ helper.put_ = helper.total_entry_count_
  /\ helper.last_put_sent_ < helper.put_

\* ------------------------------------------------------------------- C27
\* IsContextLost changes nothing the other operations read, so it is left out
\* of Spec; ContextSpec is the helper with IsContextLost among its operations
\* and a channel whose GetLastError may answer anything.
ContextNext == Next \/ CallIsContextLost

ContextSpec == Init /\ [][ContextNext]_vars

IsContextLostStep == ClientCall /\ CalledOp = "IsContextLost"

(* C27: context_lost_ starts false and turns true only in an IsContextLost *)
(* call to which the channel reports an error; a call returns true iff     *)
(* the flag was set before or the channel reports an error now, so once it *)
(* has returned true it returns true on every later call whatever the      *)
(* channel reports.                                                        *)
C27_Sticky ==
  /\ [][helper'.context_lost_ # helper.context_lost_ =>
          /\ ~helper.context_lost_
          /\ IsContextLostStep /\ obs'.ret.arg = 1]_vars
  /\ [][IsContextLostStep =>
          /\ (obs'.ret.val = 1) <=> (helper.context_lost_ \/ obs'.ret.arg = 1)
          /\ helper'.context_lost_ <=> (obs'.ret.val = 1)]_vars
  /\ [](Returned("IsContextLost") => (obs.ret.val = 1 <=> helper.context_lost_))

C27_Witness ==
  /\ Returned("IsContextLost") /\ obs.ret.val = 1 /\ obs.ret.arg = 0
  /\ helper.context_lost_

\* ------------------------------------------------------------------- C28
\* A step of the client in which the wrap branch pads the tail and resets
\* put_: a call that pads at once, or the return of the FlushSync the wrap
\* branch was waiting in.
PadStep ==
  /\ obs'.pad.done
  /\ ClientCall \/ (ctl.pc = "blocked" /\ ~obs.pad.done)

\* The get the wrap branch reads before it pads: the cached one, or the one
\* the returning FlushSync brings.
PadGet ==
  IF ctl.pc = "idle" THEN CachedGet ELSE channel.service.get_offset

ReserveStep ==
  /\ ClientCall /\ CalledOp = "GetSpace"
  /\ helper.usable_ /\ helper.ring_buffer_id_ >= 0

\* The reservation fits between put_ and the end of the ring.
Fits == helper.put_ + CalledCount <= helper.total_entry_count_

\* The channel calls of the called reservation, from the writable count
\* before (w0) and after (w1) the asynchronous Flush.
Escalated ==
  LET count == CalledCount
      m0 == CalcImmediateEntries(Machine, count)
      w0 == m0.h.immediate_entry_count_
      w1 == CalcImmediateEntries(Flush(m0), count).h.immediate_entry_count_
      unsent == IF helper.last_put_sent_ # helper.put_ THEN 1 ELSE 0
  IN IF helper.immediate_entry_count_ >= count \/ w0 >= count
     THEN /\ ctl'.pc = "idle" /\ obs'.calls = 0
          /\ obs'.ret.val = helper.put_
     ELSE IF w1 >= count
     THEN /\ ctl'.pc = "idle" /\ obs'.calls = 1
          /\ obs'.ret.val = helper.put_
          /\ helper'.last_put_sent_ = helper.put_
     ELSE /\ ctl'.pc = "blocked" /\ ctl'.at = "WaitFull"
          /\ obs'.calls = unsent + 1

\* The FlushSync a reservation waits in for writable entries returns.
WaitFullReturns ==
  /\ ctl.pc = "blocked" /\ ctl.at = "WaitFull" /\ ctl.op = "GetSpace"
  /\ ~ServiceStep /\ vars' # vars

(* C29 as stated: every reservation makes no channel call when the         *)
(* writable count is already >= count, otherwise attempts one asynchronous *)
(* Flush first and calls FlushSync only if the count is still < count      *)
(* after it.                                                               *)
C29_Original == [][ReserveStep => Escalated]_vars

(* C29: a reservation that fits before the end of the ring makes no        *)
(* channel call when the writable count is already >= count, otherwise     *)
(* attempts one asynchronous Flush first and calls FlushSync only if the   *)
(* count is still < count after it; the FlushSync loop stops as soon as    *)
(* the count is >= count or a FlushSync fails.  A reservation that has to  *)
(* wrap may call FlushSync first, in the wait of the wrap branch.          *)
C29_Escalation ==
  /\ [][ReserveStep /\ Fits => Escalated]_vars
  /\ [][ReserveStep /\ ctl'.pc = "blocked" /\ ctl'.at = "WaitWrap" =>
          ~Fits /\ obs'.calls = 1]_vars
  /\ [][WaitFullReturns =>
          /\ channel'.last_state.error => ctl'.pc = "idle"
          /\ ctl'.pc = "blocked" =>
                /\ ctl'.at = "WaitFull"
                /\ helper'.immediate_entry_count_ < ctl.arg
          /\ ctl'.pc = "idle" /\ ~channel'.last_state.error =>
                obs'.ret.val >= 0]_vars

C29_Witness ==
  /\ ctl.pc = "blocked" /\ ctl.at = "WaitFull" /\ ctl.op = "GetSpace"
  /\ obs.calls = 2 /\ ~obs.pad.need
  /\ helper.last_put_sent_ = helper.put_

\* ------------------------------------------------------------------- C30
\* A reservation waits in FlushSync for writable entries.
FullBlocked == ctl.pc = "blocked" /\ ctl.at = "WaitFull"

\* The FlushSync of that wait returns and finds that the service has
\* consumed everything that was flushed.
DrainedReturn ==
  /\ FullBlocked /\ ~ServiceStep /\ vars' # vars
  /\ ~channel.service.error
  /\ channel.service.get_offset = helper.last_put_sent_
  /\ helper.last_put_sent_ = helper.put_

(* C30: the automatic-flush limit does not hold back a large command: the  *)
(* wait loop of a reservation runs with count < capacity and               *)
(* put_ + count <= capacity, and when its FlushSync returns with           *)
(* get = last_put_sent_ = put_ the loop exits and the entries are handed   *)
(* out, also when count exceeds the automatic-flush limit.                 *)
C30_NoDeadlock ==
  /\ [](FullBlocked =>
          /\ WaitCount < helper.total_entry_count_
          /\ helper.put_ + WaitCount <= helper.total_entry_count_
          /\ helper.last_put_sent_ = helper.put_)
  /\ [][DrainedReturn =>
          /\ ~FullBlocked'
          /\ channel'.last_state.get_offset = helper.put_
          /\ ctl.op = "GetSpace" =>
                /\ ctl'.pc = "idle" /\ obs'.ret.val = helper.put_
                /\ helper'.put_ = helper.put_ + ctl.arg]_vars

C30_Witness ==
  /\ Returned("GetSpace") /\ obs.ret.arg = Capacity - 1
  /\ helper.flush_automatically_
  /\ obs.ret.arg > helper.total_entry_count_ \div kAutoFlushBig
  /\ obs.calls >= 2 /\ obs.ret.val >= 0
  /\ CachedGet = obs.ret.val /\ helper.last_put_sent_ = obs.ret.val

\* ------------------------------------------------------------------- C31
\* A step of the client in which a buffer is created and installed.
Installs == helper.ring_buffer_id_ < 0 /\ helper'.ring_buffer_id_ >= 0

\* The service reports fewer entries than the installed buffer was asked for.
ShortRing == channel.service.num_entries < helper.ring_buffer_size_

(* C31: after a successful allocation put_ is the put offset the service   *)
(* reports, the capacity is the requested entry count and the writable     *)
(* count is the recomputed one; when the service reports fewer entries     *)
(* than requested the allocation fails, the helper is unusable and put_    *)
(* and the capacity are left as they were; with a ring already allocated   *)
(* no buffer is created.                                                   *)
C31_Allocation ==
  /\ [](Returned("Initialize") /\ obs.ret.val = 1 =>
          /\ helper.usable_ /\ helper.ring_buffer_id_ >= 0
          /\ helper.put_ = channel.service.put_offset
          /\ helper.total_entry_count_ = obs.ret.arg
          /\ channel.service.num_entries >= obs.ret.arg
          /\ Recomputed)
  /\ [][Installs /\ helper'.usable_ =>
          /\ helper'.total_entry_count_ = helper'.ring_buffer_size_
          /\ ~ShortRing']_vars
  /\ [][Installs /\ ShortRing' =>
          /\ ~helper'.usable_ /\ helper'.immediate_entry_count_ = 0
          /\ helper'.put_ = helper.put_
          /\ helper'.total_entry_count_ = helper.total_entry_count_
          /\ ctl'.pc = "idle" /\ FailureValue]_vars
  /\ [][helper.ring_buffer_id_ >= 0 /\ ClientCall =>
          obs'.live <= obs.live /\ obs'.create_failed = obs.create_failed]_vars
  /\ [][ClientCall /\ CalledOp = "GetSpace" /\ helper.usable_
          /\ helper.ring_buffer_id_ >= 0
          /\ CalledCount <= helper.immediate_entry_count_ =>
          obs'.calls = 0 /\ obs'.ret.val = helper.put_]_vars

C31_Witness ==
  /\ Returned("Initialize") /\ obs.ret.val = 0
  /\ helper.ring_buffer_id_ >= 0 /\ ~helper.usable_
  /\ ShortRing /\ obs.live = 1

\* ------------------------------------------------------------------- C32
\* The usable helper has its ring.
Working == helper.usable_ /\ helper.ring_buffer_id_ >= 0

(* C32: Flush never drops unsent work: after Flush on a usable helper the  *)
(* channel has been told a put offset that covers every entry written so   *)
(* far (last_put_sent_ = put_ = the put offset the service holds), and     *)
(* the state put_ = capacity with last_put_sent_ = 0, in which Flush would *)
(* wrap put_ and make no call, is not reached.                             *)
C32_FlushCovers ==
  /\ Returned("Flush") /\ Working =>
       /\ helper.last_put_sent_ = helper.put_
       /\ channel.service.put_offset = helper.put_
  /\ Working /\ helper.total_entry_count_ > 0 =>
       ~(helper.put_ = helper.total_entry_count_ /\ helper.last_put_sent_ = 0)

\* ------------------------------------------------------------------- C33
(* C33: on a usable helper, put_ = the cached get implies that nothing is  *)
(* unflushed (last_put_sent_ = put_) and nothing unconsumed (no written    *)
(* entry is unread and the service's get is at put_); so a Finish that     *)
(* returns true without a channel call leaves no command pending.          *)
C33_EmptyMeansDone ==
  /\ helper.usable_ /\ helper.put_ = CachedGet =>
       /\ helper.last_put_sent_ = helper.put_
       /\ UnreadSlots = {}
       /\ helper.ring_buffer_id_ >= 0 => channel.service.get_offset = helper.put_
  /\ Returned("Finish") /\ obs.ret.val = 1 /\ obs.calls = 0 =>
       /\ helper.put_ = CachedGet
       /\ UnreadSlots = {}

C33_Witness ==
  /\ Returned("Finish") /\ obs.ret.val = 1 /\ obs.calls = 0
  /\ helper.usable_ /\ helper.ring_buffer_id_ >= 0
  /\ helper.put_ = CachedGet /\ helper.put_ > 0

\* ------------------------------------------------------------------- C34
\* The safe contiguous entries for the current put_ and the cached get.
SentinelFormula ==
  IF CachedGet > helper.put_
  THEN CachedGet - helper.put_ - 1
  ELSE helper.total_entry_count_ - helper.put_
         - (IF CachedGet = 0 THEN 1 ELSE 0)

(* C34: the cached writable count is never negative and never above the    *)
(* safe count for the current put_ and cached get, hence never above       *)
(* capacity - put_; it is 0 whenever the helper is unusable or has no ring *)
(* buffer.                                                                 *)
C34_CountBound ==
  /\ 0 <= helper.immediate_entry_count_
  /\ helper.immediate_entry_count_ <= helper.total_entry_count_ - helper.put_
  /\ Working => helper.immediate_entry_count_ <= SentinelFormula
  /\ ~Working => helper.immediate_entry_count_ = 0

\* Entries are left after a reservation, as many as the safe count allows.
C34_Witness ==
  /\ Working /\ Returned("GetSpace") /\ obs.ret.val >= 0
  /\ 0 < helper.immediate_entry_count_
  /\ helper.immediate_entry_count_ = SentinelFormula

\* ------------------------------------------------------------------- C35
\* The channel has reported no error so far, and the token the current
\* WaitForToken waits for was returned by InsertToken.
FairWait ==
  /\ ~channel.service.error /\ ~channel.last_state.error
  /\ ctl.op = "WaitForToken" /\ ctl.arg \in obs.issued

(* C35: while the channel reports no error, a WaitForToken for a token     *)
(* that InsertToken returned never aborts on the empty ring: whenever it   *)
(* finds the acknowledged token below the waited one, put_ differs from    *)
(* get and it waits in FlushSync.                                          *)
C35_NoEmptyAbort ==
  /\ FairWait => ~(ctl.pc = "aborted" /\ obs.fatal = "WaitForToken")
  /\ FairWait /\ ctl.pc = "blocked" =>
       /\ channel.last_state.token < ctl.arg
       /\ CachedGet # helper.put_

C35_Witness ==
  /\ FairWait /\ ctl.pc = "blocked" /\ ctl.at = "WaitForToken"
  /\ channel.last_state.token < ctl.arg
  /\ CachedGet # helper.put_
  /\ ctl.arg < helper.token_

\* ------------------------------------------------------------------- C36
(* C36: every put offset handed to the channel by Flush or FlushSync lies  *)
(* in [0, capacity): a put_ at the physical end is wrapped to 0 before it  *)
(* is sent.                                                                *)
C36_SentInRing ==
  /\ obs.sent_range
  /\ channel.service.put_offset \in Slots
  /\ helper.last_put_sent_ \in Slots

\* Flush has sent 0 for a put_ that stood at the end of the ring: the last
\* slot is still unread and nothing was padded.
C36_Witness ==
  /\ Returned("Flush") /\ obs.calls = 1 /\ ~obs.pad.done
  /\ helper.put_ = 0 /\ helper.last_put_sent_ = 0
  /\ channel.service.put_offset = 0
  /\ entries[Capacity - 1].unread

\* ------------------------------------------------------------------- C37
(* C37: at most one buffer created through the channel exists at any time, *)
(* it is the one installed in the helper, none is destroyed that does not  *)
(* exist, and after the destructor none is left, also when the buffer came *)
(* from an allocation that failed on the service's entry count.            *)
C37_Regions ==
  /\ obs.live \in {0, 1}
  /\ obs.live = 1 <=> helper.ring_buffer_id_ >= 0
  /\ Destroyed => obs.live = 0

\* The helper that is destroyed held the buffer of an allocation that had
\* failed on the entry count.
C37_Witness ==
  /\ Destroyed /\ obs.live = 0 /\ obs.calls = 1
  /\ ~helper.usable_ /\ ~obs.create_failed /\ ShortRing

\* ------------------------------------------------------------------- C38
\* A step of FreeRingBuffer.
FreeStep == ClientCall /\ CalledOp = "FreeRingBuffer"

\* What the CHECK of FreeRingBuffer tests.
FreeAllowed == helper.put_ = CachedGet \/ channel.last_state.error

(* C38: FreeRingBuffer destroys the buffer only when put_ equals the cached *)
(* get or the channel's last state carries an error, and then leaves no     *)
(* buffer installed; otherwise it aborts and destroys nothing. Called with  *)
(* entries the service has not executed and no error, it aborts.            *)
C38_FreeGuard ==
  [][FreeStep =>
       /\ FreeAllowed => /\ ctl'.pc = "idle"
                     /\ helper'.ring_buffer_id_ < 0
                     /\ obs'.live = 0
       /\ ~FreeAllowed => /\ ctl'.pc = "aborted" /\ obs'.fatal = "FreeRingBuffer"
                      /\ obs'.calls = 0
                      /\ obs'.live = obs.live
                      /\ helper' = helper /\ channel' = channel
       /\ UnreadSlots # {} /\ ~channel.last_state.error
            => ctl'.pc = "aborted"]_vars

\* FreeRingBuffer has aborted on a ring with unexecuted entries.
C38_Witness ==
  /\ ctl.pc = "aborted" /\ obs.fatal = "FreeRingBuffer"
  /\ UnreadSlots # {} /\ ~channel.last_state.error
  /\ obs.live = 1 /\ helper.usable_

\* ------------------------------------------------------------------- C39
\* A reservation or InsertToken allocates a new ring buffer for a helper whose
\* earlier one was freed, and the helper is usable afterwards.
Reallocates ==
  /\ ClientCall /\ Installs
  /\ CalledOp \in {"GetSpace", "InsertToken"}
  /\ helper.total_entry_count_ > 0
  /\ helper'.usable_

(* C39: after a reservation has re-allocated a freed ring, last_put_sent_   *)
(* is a put offset of the new ring that the service holds, as on a fresh    *)
(* ring, so the pending count covers exactly the entries not yet announced  *)
(* and a Flush announces them.                                              *)
C39_FreshCursors ==
  [][Reallocates =>
       helper'.last_put_sent_ = channel'.service.put_offset]_vars

====
